---- MODULE Spec2Model ----
(***************************************************************************)
(* Model of sonix.core.audio: the interval builder                         *)
(* (entries_from_intervals), the interval merger (merge_intervals and its  *)
(* _reducer), the segment formatter (entries_to_segments), the pipeline    *)
(* split_audio_into_segments, the diarization wrapper                      *)
(* diarize_with_silence and the two-tier VAD entry point vad_with_pyanote. *)
(*                                                                         *)
(* An interval is a tuple <<start, end, is_speech>>, a raw active range a  *)
(* tuple <<start, end>>, as in the Python source.  A float number of       *)
(* seconds is the exact fraction <<numerator, denominator>>.  A waveform   *)
(* is abstracted to its number of samples and the ranges the energy        *)
(* detector (librosa.effects.split) reports on it.                         *)
(***************************************************************************)
EXTENDS Integers, Sequences, FiniteSets, TLC

\* ------------------------------------------------------------------ bounds
\* Largest sample index of the enumerated waveforms and interval lists.
MaxTotal == 5
\* Longest interval list handed to merge_intervals directly.
MaxEntries == 4
\* Largest min_gap handed to merge_intervals directly.
MaxGap == 2
\* Largest min_silence_len_sec and pad_sec, in half seconds.
MaxHalfSec == 3
MaxPadHalf == 2
\* Most raw active ranges a detector reports on one waveform.
MaxRanges == 3

\* ------------------------------------------------------------ small helpers
Last(q) == q[Len(q)]
Front(q) == SubSeq(q, 1, Len(q) - 1)
Max2(a, b) == IF a >= b THEN a ELSE b
Min2(a, b) == IF a <= b THEN a ELSE b

RECURSIVE Pow2(_)
Pow2(t) == IF t = 0 THEN 1 ELSE 2 * Pow2(t - 1)

\* 2^q modulo d.
RECURSIVE Pow2Mod(_, _)
Pow2Mod(q, d) == IF q = 0 THEN 1 % d ELSE (2 * Pow2Mod(q - 1, d)) % d

\* For n >= d > 0: the largest e with 2^e * d <= n.
RECURSIVE LogUp(_, _)
LogUp(n, d) == IF 2 * d > n THEN 0 ELSE 1 + LogUp(n, 2 * d)

\* For n, d > 0: the least c with n * 2^c >= d.
RECURSIVE LogDown(_, _)
LogDown(n, d) == IF n >= d THEN 0 ELSE 1 + LogDown(2 * n, d)

\* floor(log2(n / d)) for n, d > 0.
FloorLog2(n, d) == IF n >= d THEN LogUp(n, d) ELSE 0 - LogDown(n, d)

\* int(x * sr) for the Python float x written n/d (x = <<n, d>>, n >= 0,
\* d > 0) and the integer sr >= 1, computed as the code computes it: on
\* IEEE doubles.  The float x is the double nearest to n/d, m / 2^q with
\* 2^52 <= m < 2^53 and q = 52 - floor(log2(n/d)); R is the remainder of
\* n * 2^q by d, so x lies R / (d * 2^q) below n/d when 2R < d and above it
\* otherwise.  When n * sr / d is no integer the rounding of x and of the
\* product is too small to move the truncation.  When it is an integer k
\* and x was rounded down, the exact product x * sr lies below k by
\* sr * R / (d * 2^q); the doubles just below k (2^j < k <= 2^(j+1)) are
\* 2^(j-52) apart, and the product rounds to the double below k, which
\* truncates to k - 1, iff it lies more than half that spacing below k
\* (a tie rounds to k, whose significand is even): 0.29 * 100 is
\* 28.999999999999996 and truncates to 28.
IntOfProduct(x, sr) ==
    LET n == x[1]
        d == x[2]
        k == (n * sr) \div d
    IN  IF (n * sr) % d # 0 \/ k = 0 THEN k
        ELSE LET fl == FloorLog2(n, d)
                 R == (n * Pow2Mod(52 - fl, d)) % d
                 t == LogDown(1, k) - 1 - fl
             IN  IF R # 0 /\ 2 * R < d /\ t >= 0
                      /\ 2 * sr * R > d * Pow2(t)
                   THEN k - 1
                   ELSE k

\* Equality and order of two fractions with positive denominators.
FracEq(a, b) == a[1] * b[2] = b[1] * a[2]
FracLeq(a, b) == a[1] * b[2] <= b[1] * a[2]

\* ----------------------------------------------------------- merge_intervals
\* A reducer whose Rule B forgets to test that the previous interval is
\* silence.
ReducerBridgesAfterSpeech(acc, cur, min_gap) ==
    IF acc = <<>> THEN <<cur>>
    ELSE LET ps == Last(acc)[1]
             pe == Last(acc)[2]
             pis == Last(acc)[3]
             s == cur[1]
             e == cur[2]
             is_speech == cur[3]
         IN  IF ~pis /\ ~is_speech /\ (e - s) <= min_gap
               THEN Append(Front(acc), <<ps, e, FALSE>>)
             ELSE IF is_speech /\ (s - pe) <= min_gap
               THEN Append(Front(acc), <<ps, e, TRUE>>)
             ELSE Append(acc, cur)

\* A reducer whose Rule A keeps the accumulated end instead of the current.
ReducerKeepsOldEnd(acc, cur, min_gap) ==
    IF acc = <<>> THEN <<cur>>
    ELSE LET ps == Last(acc)[1]
             pe == Last(acc)[2]
             pis == Last(acc)[3]
             s == cur[1]
             e == cur[2]
             is_speech == cur[3]
         IN  IF ~pis /\ ~is_speech /\ (e - s) <= min_gap
               THEN Append(Front(acc), <<ps, pe, FALSE>>)
             ELSE IF ~pis /\ is_speech /\ (s - pe) <= min_gap
               THEN Append(Front(acc), <<ps, e, TRUE>>)
             ELSE Append(acc, cur)

\* A reducer whose Rule B starts the merged speech at the current start.
ReducerDropsSilence(acc, cur, min_gap) ==
    IF acc = <<>> THEN <<cur>>
    ELSE LET ps == Last(acc)[1]
             pe == Last(acc)[2]
             pis == Last(acc)[3]
             s == cur[1]
             e == cur[2]
             is_speech == cur[3]
         IN  IF ~pis /\ ~is_speech /\ (e - s) <= min_gap
               THEN Append(Front(acc), <<ps, e, FALSE>>)
             ELSE IF ~pis /\ is_speech /\ (s - pe) <= min_gap
               THEN Append(Front(acc), <<s, e, TRUE>>)
             ELSE Append(acc, cur)

\* _reducer(acc, cur) of merge_intervals, with its closure variable min_gap.
reducer(acc, cur, min_gap) ==
    IF acc = <<>> THEN <<cur>>
    ELSE LET ps == Last(acc)[1]
             pe == Last(acc)[2]
             pis == Last(acc)[3]
             s == cur[1]
             e == cur[2]
             is_speech == cur[3]
         IN  IF ~pis /\ ~is_speech /\ (e - s) <= min_gap
               THEN Append(Front(acc), <<ps, e, FALSE>>)
             ELSE IF ~pis /\ is_speech /\ (s - pe) <= min_gap
               THEN Append(Front(acc), <<ps, e, TRUE>>)
             ELSE Append(acc, cur)

\* functools.reduce(_reducer, entries[:k], [])
RECURSIVE reduce(_, _, _)
reduce(entries, min_gap, k) ==
    IF k = 0 THEN <<>>
    ELSE reducer(reduce(entries, min_gap, k - 1), entries[k], min_gap)

merge_intervals(entries, min_gap) == reduce(entries, min_gap, Len(entries))

\* ------------------------------------------------------ entries_from_intervals
\* zip_longest(a, b) flattened, the None fill values dropped.
RECURSIVE Interleave(_, _, _)
Interleave(a, b, k) ==
    IF k > Max2(Len(a), Len(b)) THEN <<>>
    ELSE (IF k <= Len(a) THEN <<a[k]>> ELSE <<>>)
         \o (IF k <= Len(b) THEN <<b[k]>> ELSE <<>>)
         \o Interleave(a, b, k + 1)

\* The silences between consecutive ranges i, i+1 (from range k on), the
\* zero-length ones filtered out.
RECURSIVE SilencesFrom(_, _)
SilencesFrom(intervals, k) ==
    IF k >= Len(intervals) THEN <<>>
    ELSE (IF intervals[k + 1][1] > intervals[k][2]
            THEN << <<intervals[k][2], intervals[k + 1][1], FALSE>> >>
            ELSE <<>>)
         \o SilencesFrom(intervals, k + 1)

\* A builder without the early return for an empty list of ranges.
BuilderWithoutEmptyCase(intervals, total) ==
    IF Len(intervals) = 0 THEN <<>>
    ELSE LET speech_iter == [k \in 1..Len(intervals) |->
                               <<intervals[k][1], intervals[k][2], TRUE>>]
         IN  (IF intervals[1][1] > 0
                THEN << <<0, intervals[1][1], FALSE>> >> ELSE <<>>)
             \o Interleave(speech_iter, SilencesFrom(intervals, 1), 1)
             \o (IF Last(intervals)[2] < total
                   THEN << <<Last(intervals)[2], total, FALSE>> >> ELSE <<>>)

entries_from_intervals(intervals, total) ==
    IF Len(intervals) = 0 THEN << <<0, total, FALSE>> >>
    ELSE LET initial == IF intervals[1][1] > 0
                          THEN << <<0, intervals[1][1], FALSE>> >>
                          ELSE <<>>
             speech_iter == [k \in 1..Len(intervals) |->
                               <<intervals[k][1], intervals[k][2], TRUE>>]
             silences_iter == SilencesFrom(intervals, 1)
             interleaved == Interleave(speech_iter, silences_iter, 1)
             tail == IF Last(intervals)[2] < total
                       THEN << <<Last(intervals)[2], total, FALSE>> >>
                       ELSE <<>>
         IN  initial \o interleaved \o tail

\* --------------------------------------------------------- entries_to_segments
Label(is_speech) == IF is_speech THEN "speech" ELSE "silence"

\* A formatter that pads speech boundaries without clamping them.
SegmentUnclamped(iv, sr, total, pad) ==
    [start_time_sec |-> IF iv[3] THEN <<iv[1] - pad, sr>> ELSE <<iv[1], sr>>,
     end_time_sec   |-> IF iv[3] THEN <<iv[2] + pad, sr>> ELSE <<iv[2], sr>>,
     label          |-> Label(iv[3]),
     transcript     |-> ""]

Segment(iv, sr, total, pad) ==
    [start_time_sec |-> IF iv[3] THEN <<Max2(0, iv[1] - pad), sr>>
                                 ELSE <<iv[1], sr>>,
     end_time_sec   |-> IF iv[3] THEN <<Min2(total, iv[2] + pad), sr>>
                                 ELSE <<iv[2], sr>>,
     label          |-> Label(iv[3]),
     transcript     |-> ""]

entries_to_segments(collapsed, sr, total, pad_sec) ==
    LET pad == IntOfProduct(pad_sec, sr)
    IN  [k \in 1..Len(collapsed) |-> Segment(collapsed[k], sr, total, pad)]

\* --------------------------------------------------- split_audio_into_segments
\* data = [total |-> number of samples, active |-> what librosa.effects.split
\* reports on it].
split_audio_into_segments(data, sr, min_silence_len_sec, pad_sec) ==
    LET total == data.total
        intervals == data.active
        entries == entries_from_intervals(intervals, total)
        min_gap == IntOfProduct(min_silence_len_sec, sr)
        collapsed == merge_intervals(entries, min_gap)
    IN  entries_to_segments(collapsed, sr, total, pad_sec)

\* ------------------------------------------------------ diarize_with_silence
\* Defaults of split_audio_into_segments' keyword parameters.
DefaultMinSilenceLenSec == <<1, 1>>
DefaultPadSec == <<0, 1>>

\* Python's None, for the optional credential and for a track's label.
None == "None"

\* `if hf_token:` is the truth value of the credential.
Truthy(token) == token # None /\ token # ""

\* The list comprehension over ann.itertracks(yield_label=True).
TrackSegments(tracks) ==
    [k \in 1..Len(tracks) |->
        [start_time_sec |-> tracks[k][1],
         end_time_sec   |-> tracks[k][2],
         label          |-> IF tracks[k][3] # None THEN tracks[k][3]
                                                   ELSE "speaker"]]

\* ---------------------------------------------------------- vad_with_pyanote
\* The cutoff a window's speech probability is compared with, in percent.
NeuralThresholdPct == 50

\* The raw active ranges of a list of probability windows
\* <<start sample, end sample, probability in percent>>: a window is active
\* iff its probability is at least the threshold.
RECURSIVE ActiveWindows(_, _)
ActiveWindows(windows, k) ==
    IF k > Len(windows) THEN <<>>
    ELSE (IF windows[k][3] >= NeuralThresholdPct
            THEN << <<windows[k][1], windows[k][2]>> >>
            ELSE <<>>)
         \o ActiveWindows(windows, k + 1)

\* Both tiers converge into builder -> merger -> formatter.
vad_segments(intervals, total, sr) ==
    entries_to_segments(
        merge_intervals(entries_from_intervals(intervals, total),
                        IntOfProduct(DefaultMinSilenceLenSec, sr)),
        sr, total, DefaultPadSec)

\* ------------------------------------------------------------------- inputs
\* Lists of at most n raw active ranges within [lo, hi], sorted by start,
\* consecutive ranges at least g samples apart (g = 0: they may touch).
RECURSIVE RangeLists(_, _, _, _)
RangeLists(lo, hi, n, g) ==
    IF n = 0 THEN {<<>>}
    ELSE {<<>>} \cup
         UNION { UNION { { << <<s, e>> >> \o rest :
                             rest \in RangeLists(e + g, hi, n - 1, g) } :
                         e \in (s + 1)..hi } :
                 s \in lo..(hi - 1) }

\* Lists of at most n intervals within [lo, hi], sorted by start and
\* non-overlapping, with any labels; gaps between them are allowed.
RECURSIVE EntryLists(_, _, _)
EntryLists(lo, hi, n) ==
    IF n = 0 THEN {<<>>}
    ELSE {<<>>} \cup
         UNION { UNION { { << <<s, e, b>> >> \o rest :
                             rest \in EntryLists(e, hi, n - 1), b \in BOOLEAN } :
                         e \in (s + 1)..hi } :
                 s \in lo..(hi - 1) }

\* The entries of test_merge_intervals_merges_short_silences.
TestEntries == << <<0, 10, FALSE>>, <<11, 12, FALSE>>, <<20, 30, TRUE>> >>

\* Waveforms as the energy detector sees them: librosa.effects.split reports
\* maximal runs of non-silent frames, so its ranges are sorted and two
\* consecutive ranges never touch.
Waveforms ==
    UNION { { [total |-> t, active |-> a] :
                a \in RangeLists(0, t, MaxRanges, 1) } : t \in 1..MaxTotal }

\* The 12.5 s waveform of the end-to-end property at 2 samples per second:
\* active on [1.5 s, 5.5 s] and [7.0 s, 12.5 s].
EndToEndWaveform == [total |-> 25, active |-> << <<3, 11>>, <<14, 25>> >>]

\* Arguments of a direct call of entries_from_intervals: sorted,
\* non-overlapping ranges that may touch.
BuilderInputs ==
    UNION { { [total |-> t, active |-> a] :
                a \in RangeLists(0, t, MaxRanges, 0) } : t \in 0..MaxTotal }

\* The arguments of test_entries_from_intervals_empty.
TestEmptyInput == [total |-> 12345, active |-> <<>>]

\* A sample rate and a number of seconds whose product is inexact in
\* floating point: (1/49) * 49 = 0.9999999999999999.
InexactSampleRate == [sr |-> 49, sec |-> <<1, 49>>]

SampleRates == {1, 2}
HalfSeconds(n) == { <<h, 2>> : h \in 0..n }

\* What the neural diarization pipeline does when it is invoked.
DiarizationOutcomes == {"ok", "load_error", "inference_error"}
Annotations ==
    { <<>>,
      << << <<0, 1>>, <<1, 2>>, "SPEAKER_00">>, << <<1, 2>>, <<3, 2>>, None>> >> }
Tokens == {None, "", "hf_token"}

\* What warnings.warn does with a RuntimeWarning: print it, drop it, or
\* raise it as an exception (python -W error, filterwarnings = error).
WarningFilters == {"default", "ignore", "error"}

\* What the neural VAD backend does: it is not installed, it answers, it
\* raises, or it answers with data = None or sliding_window = None.
VadOutcomes == {"unavailable", "ok", "raises", "null_data", "null_windows"}
VadFailures == {"raises", "null_data", "null_windows"}
Probabilities == {10, 50, 90}
WindowLists(total) ==
    { << <<0, total, p>> >> : p \in Probabilities } \cup
    UNION { { << <<0, c, p>>, <<c, total, q>> >> :
                p \in Probabilities, q \in Probabilities } :
            c \in {total \div 2} \ {0} }

\* -------------------------------------------------------------------- state
VARIABLES
    op,                   \* the entry point that was called
    pc,                   \* the position of the call
    data,                 \* the waveform, or the builder's arguments
    sr,                   \* the sample rate
    min_silence_len_sec,  \* keyword argument of split_audio_into_segments
    pad_sec,              \* keyword argument of split_audio_into_segments
    entries,              \* merge_intervals' argument / the builder's result
    min_gap,              \* merge_intervals' argument
    acc,                  \* the reducer's accumulator
    i,                    \* index of the next interval to reduce
    calls,                \* 1, or 2 once merge_intervals runs on its own result
    merged,               \* result of merge_intervals(entries, min_gap)
    remerged,             \* result of merge_intervals(merged, min_gap)
    segments,             \* the returned segment list
    hf_token,             \* the credential of diarize_with_silence
    backend,              \* the neural collaborator: its outcome and its answer
    invoked,              \* whether the neural collaborator was called
    warnings_filter       \* the action of the warnings filter in force

vars == <<op, pc, data, sr, min_silence_len_sec, pad_sec, entries, min_gap,
          acc, i, calls, merged, remerged, segments, hf_token, backend,
          invoked, warnings_filter>>

NoData == [total |-> 0, active |-> <<>>]
NoBackend == [outcome |-> "unavailable", answer |-> <<>>]

\* The values of the variables a call does not use.
Idle ==
    /\ pc = "call"
    /\ acc = <<>> /\ i = 1 /\ calls = 1
    /\ merged = <<>> /\ remerged = <<>> /\ segments = <<>>
    /\ invoked = FALSE

InitMerge ==
    /\ op = "merge_intervals"
    /\ entries \in EntryLists(0, MaxTotal, MaxEntries) \cup {TestEntries}
    /\ min_gap \in 0..MaxGap
    /\ data = NoData /\ sr = 1
    /\ min_silence_len_sec = DefaultMinSilenceLenSec /\ pad_sec = DefaultPadSec
    /\ hf_token = None /\ backend = NoBackend
    /\ warnings_filter = "default"

InitBuilder ==
    /\ op = "entries_from_intervals"
    /\ data \in BuilderInputs \cup {TestEmptyInput}
    /\ entries = <<>> /\ min_gap = 0 /\ sr = 1
    /\ min_silence_len_sec = DefaultMinSilenceLenSec /\ pad_sec = DefaultPadSec
    /\ hf_token = None /\ backend = NoBackend
    /\ warnings_filter = "default"

InitSplit ==
    /\ op = "split_audio_into_segments"
    /\ data \in Waveforms \cup {EndToEndWaveform}
    /\ \/ /\ sr \in SampleRates
          /\ min_silence_len_sec \in HalfSeconds(MaxHalfSec)
          /\ pad_sec \in HalfSeconds(MaxPadHalf)
       \/ /\ sr = InexactSampleRate.sr
          /\ min_silence_len_sec = InexactSampleRate.sec
          /\ pad_sec = InexactSampleRate.sec
    /\ entries = <<>> /\ min_gap = 0
    /\ hf_token = None /\ backend = NoBackend
    /\ warnings_filter = "default"

\* A direct call of entries_to_segments: any sorted interval list within
\* [0, total], a sample rate and a padding.
InitFormat ==
    /\ op = "entries_to_segments"
    /\ data \in { [total |-> t, active |-> <<>>] : t \in 1..MaxTotal }
    /\ entries \in EntryLists(0, data.total, MaxRanges)
    /\ \/ sr \in SampleRates /\ pad_sec \in HalfSeconds(MaxPadHalf)
       \/ sr = InexactSampleRate.sr /\ pad_sec = InexactSampleRate.sec
    /\ min_gap = 0 /\ min_silence_len_sec = DefaultMinSilenceLenSec
    /\ hf_token = None /\ backend = NoBackend
    /\ warnings_filter = "default"

InitDiarize ==
    /\ op = "diarize_with_silence"
    /\ data \in Waveforms
    /\ sr \in SampleRates
    /\ hf_token \in Tokens
    /\ backend \in [outcome : DiarizationOutcomes, answer : Annotations]
    /\ entries = <<>> /\ min_gap = 0
    /\ min_silence_len_sec = DefaultMinSilenceLenSec /\ pad_sec = DefaultPadSec
    /\ warnings_filter \in WarningFilters

InitVad ==
    /\ op = "vad_with_pyanote"
    /\ data \in Waveforms
    /\ sr \in SampleRates
    /\ \E o \in VadOutcomes, w \in WindowLists(data.total) :
          backend = [outcome |-> o, answer |-> w]
    /\ entries = <<>> /\ min_gap = 0
    /\ min_silence_len_sec = DefaultMinSilenceLenSec /\ pad_sec = DefaultPadSec
    /\ hf_token = None
    /\ warnings_filter = "default"

Init ==
    /\ Idle
    /\ \/ InitMerge
       \/ InitBuilder
       \/ InitSplit
       \/ InitFormat
       \/ InitDiarize
       \/ InitVad

\* ------------------------------------------------------------------ actions
\* The list reduce is folding: the argument, or the first call's result.
Source == IF calls = 1 THEN entries ELSE merged

\* merge_intervals is entered: reduce starts from the empty accumulator.
MergeCall ==
    /\ op = "merge_intervals" /\ pc = "call"
    /\ pc' = "reduce"
    /\ acc' = <<>> /\ i' = 1
    /\ UNCHANGED <<op, warnings_filter,
                   data, sr, min_silence_len_sec, pad_sec, entries,
                   min_gap, calls, merged, remerged, segments, hf_token,
                   backend, invoked>>

\* One application of _reducer to the accumulator and the next interval.
MergeReduce ==
    /\ op = "merge_intervals" /\ pc = "reduce"
    /\ i <= Len(Source)
    /\ acc' = reducer(acc, Source[i], min_gap)
    /\ i' = i + 1
    /\ UNCHANGED <<op, warnings_filter, pc,
                   data, sr, min_silence_len_sec, pad_sec, entries,
                   min_gap, calls, merged, remerged, segments, hf_token,
                   backend, invoked>>

\* reduce is through the list: merge_intervals returns the accumulator.
MergeReturn ==
    /\ op = "merge_intervals" /\ pc = "reduce"
    /\ i > Len(Source)
    /\ pc' = "returned"
    /\ IF calls = 1
         THEN merged' = acc /\ UNCHANGED remerged
         ELSE remerged' = acc /\ UNCHANGED merged
    /\ UNCHANGED <<op, warnings_filter,
                   data, sr, min_silence_len_sec, pad_sec, entries,
                   min_gap, acc, i, calls, segments, hf_token, backend,
                   invoked>>

\* The caller hands the result back to merge_intervals with the same min_gap.
MergeAgain ==
    /\ op = "merge_intervals" /\ pc = "returned" /\ calls = 1
    /\ calls' = 2
    /\ pc' = "call"
    /\ UNCHANGED <<op, warnings_filter,
                   data, sr, min_silence_len_sec, pad_sec, entries,
                   min_gap, acc, i, merged, remerged, segments, hf_token,
                   backend, invoked>>

EntriesFromIntervals ==
    /\ op = "entries_from_intervals" /\ pc = "call"
    /\ entries' = entries_from_intervals(data.active, data.total)
    /\ pc' = "returned"
    /\ UNCHANGED <<op, warnings_filter,
                   data, sr, min_silence_len_sec, pad_sec, min_gap, acc,
                   i, calls, merged, remerged, segments, hf_token, backend,
                   invoked>>

SplitAudioIntoSegments ==
    /\ op = "split_audio_into_segments" /\ pc = "call"
    /\ entries' = entries_from_intervals(data.active, data.total)
    /\ min_gap' = IntOfProduct(min_silence_len_sec, sr)
    /\ merged' = merge_intervals(entries', min_gap')
    /\ segments' = split_audio_into_segments(data, sr, min_silence_len_sec,
                                             pad_sec)
    /\ pc' = "returned"
    /\ UNCHANGED <<op, warnings_filter,
                   data, sr, min_silence_len_sec, pad_sec, acc, i, calls,
                   remerged, hf_token, backend, invoked>>

EntriesToSegments ==
    /\ op = "entries_to_segments" /\ pc = "call"
    /\ segments' = entries_to_segments(entries, sr, data.total, pad_sec)
    /\ pc' = "returned"
    /\ UNCHANGED <<op, warnings_filter,
                   data, sr, min_silence_len_sec, pad_sec, entries,
                   min_gap, acc, i, calls, merged, remerged, hf_token,
                   backend, invoked>>

\* A credential is given and the pyannote pipeline loads and runs: its
\* tracks are returned.
DiarizeNeuralSuccess ==
    /\ op = "diarize_with_silence" /\ pc = "call"
    /\ Truthy(hf_token)
    /\ backend.outcome = "ok"
    /\ invoked' = TRUE
    /\ segments' = TrackSegments(backend.answer)
    /\ pc' = "returned"
    /\ UNCHANGED <<op, warnings_filter,
                   data, sr, min_silence_len_sec, pad_sec, entries,
                   min_gap, acc, i, calls, merged, remerged, hf_token,
                   backend>>

\* A credential is given and loading or running the pipeline raises: the
\* except clause calls warnings.warn.  Under the "error" filter that call
\* raises the RuntimeWarning out of diarize_with_silence; otherwise control
\* falls through to the local splitter.
DiarizeNeuralFailure ==
    /\ op = "diarize_with_silence" /\ pc = "call"
    /\ Truthy(hf_token)
    /\ backend.outcome # "ok"
    /\ invoked' = TRUE
    /\ pc' = IF warnings_filter = "error" THEN "raised" ELSE "fallback"
    /\ UNCHANGED <<op, warnings_filter,
                   data, sr, min_silence_len_sec, pad_sec, entries,
                   min_gap, acc, i, calls, merged, remerged, segments,
                   hf_token, backend>>

\* The local splitter, reached without a credential or after a failure.
DiarizeFallback ==
    /\ op = "diarize_with_silence"
    /\ \/ pc = "call" /\ ~Truthy(hf_token)
       \/ pc = "fallback"
    /\ segments' = split_audio_into_segments(data, sr, DefaultMinSilenceLenSec,
                                             DefaultPadSec)
    /\ pc' = "returned"
    /\ UNCHANGED <<op, warnings_filter,
                   data, sr, min_silence_len_sec, pad_sec, entries,
                   min_gap, acc, i, calls, merged, remerged, hf_token,
                   backend, invoked>>

\* ATTEMPT_NEURAL is entered only when a neural backend is available.
VadAttemptNeural ==
    /\ op = "vad_with_pyanote" /\ pc = "call"
    /\ backend.outcome # "unavailable"
    /\ invoked' = TRUE
    /\ pc' = "ATTEMPT_NEURAL"
    /\ UNCHANGED <<op, warnings_filter,
                   data, sr, min_silence_len_sec, pad_sec, entries,
                   min_gap, acc, i, calls, merged, remerged, segments,
                   hf_token, backend>>

\* The backend answered with windows and probabilities: threshold them.
VadNeuralSuccess ==
    /\ op = "vad_with_pyanote" /\ pc = "ATTEMPT_NEURAL"
    /\ backend.outcome = "ok"
    /\ segments' = vad_segments(ActiveWindows(backend.answer, 1), data.total,
                                sr)
    /\ pc' = "NEURAL_SUCCESS"
    /\ UNCHANGED <<op, warnings_filter,
                   data, sr, min_silence_len_sec, pad_sec, entries,
                   min_gap, acc, i, calls, merged, remerged, hf_token,
                   backend, invoked>>

\* The backend raised or answered without its fields: caught.
VadNeuralFailure ==
    /\ op = "vad_with_pyanote" /\ pc = "ATTEMPT_NEURAL"
    /\ backend.outcome \in VadFailures
    /\ pc' = "NEURAL_FAILURE"
    /\ UNCHANGED <<op, warnings_filter,
                   data, sr, min_silence_len_sec, pad_sec, entries,
                   min_gap, acc, i, calls, merged, remerged, segments,
                   hf_token, backend, invoked>>

\* When the energy tier runs: without a backend, or after a caught failure.
VadEnergyTierDue ==
    /\ op = "vad_with_pyanote"
    /\ \/ pc = "call" /\ backend.outcome = "unavailable"
       \/ pc = "NEURAL_FAILURE"

\* The energy tier: the sole path without a backend, the fallback otherwise.
VadEnergyFallback ==
    /\ VadEnergyTierDue
    /\ segments' = vad_segments(data.active, data.total, sr)
    /\ pc' = "ENERGY_FALLBACK"
    /\ UNCHANGED <<op, warnings_filter,
                   data, sr, min_silence_len_sec, pad_sec, entries,
                   min_gap, acc, i, calls, merged, remerged, hf_token,
                   backend, invoked>>

Next ==
    \/ MergeCall
    \/ MergeReduce
    \/ MergeReturn
    \/ MergeAgain
    \/ EntriesFromIntervals
    \/ SplitAudioIntoSegments
    \/ EntriesToSegments
    \/ DiarizeNeuralSuccess
    \/ DiarizeNeuralFailure
    \/ DiarizeFallback
    \/ VadAttemptNeural
    \/ VadNeuralSuccess
    \/ VadNeuralFailure
    \/ VadEnergyFallback

Spec == Init /\ [][Next]_vars

\* ------------------------------------------------------------ well-formedness
\* Every interval is non-empty, the first starts at 0, each end is the next
\* start, the last ends at total.
Contiguous(q, total) ==
    /\ Len(q) >= 1
    /\ q[1][1] = 0
    /\ Last(q)[2] = total
    /\ \A k \in 1..Len(q) : q[k][1] < q[k][2]
    /\ \A k \in 1..(Len(q) - 1) : q[k][2] = q[k + 1][1]

Alternates(q) == \A k \in 1..(Len(q) - 1) : q[k][3] # q[k + 1][3]

WellFormed(q) == Len(q) >= 1 /\ Contiguous(q, Last(q)[2]) /\ Alternates(q)

TypeOK ==
    /\ pc \in {"call", "reduce", "fallback", "returned", "raised",
               "ATTEMPT_NEURAL", "NEURAL_SUCCESS", "NEURAL_FAILURE",
               "ENERGY_FALLBACK"}
    /\ calls \in {1, 2}
    /\ pc = "reduce" => i \in 1..(Len(Source) + 1)
    /\ invoked \in BOOLEAN
    /\ warnings_filter \in WarningFilters

\* The step-by-step reduction and functools.reduce agree.
ReduceAgrees ==
    op = "merge_intervals" /\ pc = "returned" =>
        /\ merged = merge_intervals(entries, min_gap)
        /\ calls = 2 => remerged = merge_intervals(merged, min_gap)

\* ------------------------------------------------------------------- claims
MergeReturned == op = "merge_intervals" /\ pc = "returned"
BuilderReturned == op = "entries_from_intervals" /\ pc = "returned"
SplitReturned == op = "split_audio_into_segments" /\ pc = "returned"

\* C1: merge_intervals preserves label alternation: on a well-formed
\* argument no two adjacent intervals of the result have the same is_speech.
C1_MergePreservesAlternation ==
    MergeReturned /\ WellFormed(entries) => Alternates(merged)

\* C2: merge_intervals preserves contiguity: on a contiguous argument
\* covering [0, total) the result starts at 0, ends at total, has no empty
\* interval, and each end is the next start.
C2_MergePreservesContiguity ==
    (MergeReturned \/ SplitReturned)
      /\ Len(entries) >= 1 /\ Contiguous(entries, Last(entries)[2])
    => Contiguous(merged, Last(entries)[2])

\* A contiguous argument on which a rule of the reducer has fired.
C2_Witness ==
    /\ MergeReturned
    /\ Len(entries) >= 3 /\ Contiguous(entries, Last(entries)[2])
    /\ Len(merged) < Len(entries)

\* The starts of a list increase strictly.
IncreasingStarts(q) == \A k \in 1..(Len(q) - 1) : q[k][1] < q[k + 1][1]

\* C3: entries_from_intervals is contiguous: for total > 0 and sorted,
\* non-overlapping, non-empty ranges within [0, total] (touching allowed),
\* the result is in increasing start order, starts at 0, each end is the next
\* start, and it ends at total.
C3_BuilderContiguous ==
    BuilderReturned /\ data.total > 0
    => IncreasingStarts(entries) /\ Contiguous(entries, data.total)

\* C4: entries_from_intervals alternates labels for all valid inputs, also
\* when two ranges touch, and emits no zero-length interval.
C4_BuilderAlternates ==
    BuilderReturned /\ data.total > 0
    => /\ Alternates(entries)
       /\ \A k \in 1..Len(entries) : entries[k][1] < entries[k][2]

\* The reducer is about to take a short silence onto an accumulated silence.
RuleACase ==
    /\ op = "merge_intervals" /\ pc = "reduce" /\ i <= Len(Source)
    /\ acc # <<>>
    /\ ~Last(acc)[3] /\ ~Source[i][3]
    /\ Source[i][2] - Source[i][1] <= min_gap

\* The reducer is about to take a speech interval that starts more than
\* min_gap after the end of an accumulated silence.
FarSpeechCase ==
    /\ op = "merge_intervals" /\ pc = "reduce" /\ i <= Len(Source)
    /\ acc # <<>>
    /\ ~Last(acc)[3] /\ Source[i][3]
    /\ Source[i][1] - Last(acc)[2] > min_gap

TestMerged == << <<0, 12, FALSE>>, <<20, 30, TRUE>> >>

\* C5: Rule A: an accumulated silence followed by a silence of length
\* <= min_gap becomes one silence from the accumulated start to the current
\* end, also when the two do not touch; a speech interval starting more than
\* min_gap after an accumulated silence is appended unchanged; and
\* merge_intervals([(0,10,F),(11,12,F),(20,30,T)], 2) = [(0,12,F),(20,30,T)].
C5_RuleA ==
    [][ /\ RuleACase =>
            acc' = Append(Front(acc),
                          <<Last(acc)[1], Source[i][2], FALSE>>)
        /\ FarSpeechCase => acc' = Append(acc, Source[i])
        /\ (entries = TestEntries /\ min_gap = 2 /\ calls = 1
              /\ pc' = "returned")
           => merged' = TestMerged ]_vars

\* The test's entries went through: the silences (0,10) and (11,12), which
\* do not touch, were fused and the far speech interval was appended.
C5_Witness ==
    /\ MergeReturned /\ calls = 1
    /\ entries = TestEntries /\ min_gap = 2
    /\ merged = TestMerged

\* C6: merge_intervals is idempotent: on a well-formed argument, merging the
\* result again with the same min_gap returns the result unchanged.
C6_MergeIdempotent ==
    MergeReturned /\ calls = 2 /\ WellFormed(entries) => remerged = merged

\* The second call returned on a result the first call had changed.
C6_Witness ==
    /\ MergeReturned /\ calls = 2 /\ WellFormed(entries)
    /\ merged # entries /\ Len(merged) >= 2

\* The boundaries, in seconds, of the four expected segments.
EndToEndBounds ==
    << << <<0, 1>>, <<3, 2>> >>, << <<3, 2>>, <<11, 2>> >>,
       << <<11, 2>>, <<7, 1>> >>, << <<7, 1>>, <<25, 2>> >> >>

\* C7: with the active ranges [1.5 s, 5.5 s] and [7.0 s, 12.5 s] on a 12.5 s
\* waveform, min_silence_len_sec = 1.0 and pad_sec = 0, the pipeline returns
\* exactly the 4 segments silence 0-1.5, speech 1.5-5.5, silence 5.5-7.0,
\* speech 7.0-12.5.
C7_EndToEnd ==
    SplitReturned /\ data = EndToEndWaveform /\ sr = 2
      /\ FracEq(min_silence_len_sec, <<1, 1>>) /\ FracEq(pad_sec, <<0, 1>>)
    => /\ Len(segments) = 4
       /\ [k \in 1..4 |-> segments[k].label]
            = <<"silence", "speech", "silence", "speech">>
       /\ \A k \in 1..4 :
            /\ FracEq(segments[k].start_time_sec, EndToEndBounds[k][1])
            /\ FracEq(segments[k].end_time_sec, EndToEndBounds[k][2])

SpeechOrSilence(segs) ==
    \A k \in 1..Len(segs) : segs[k].label \in {"speech", "silence"}

\* C9: for a waveform of total > 0 samples, whatever ranges the energy
\* detector reports, split_audio_into_segments returns a non-empty list of
\* segments labelled "speech" or "silence".
C9_SplitNonEmptyLabelled ==
    SplitReturned /\ data.total > 0
    => Len(segments) >= 1 /\ SpeechOrSilence(segments)

\* The pipeline returned on a waveform without any active range.
C9_Witness ==
    /\ SplitReturned /\ data.total > 0 /\ data.active = <<>>
    /\ Len(segments) = 1 /\ segments[1].label = "silence"

\* C10: diarize_with_silence returns exactly the segments of
\* split_audio_into_segments on the same waveform whenever the neural tier
\* does not succeed: without a credential (the neural model is then never
\* invoked) and with a credential when loading or inference raises; the
\* call never ends with an exception.
C10_DiarizeFallback ==
    op = "diarize_with_silence"
    => /\ pc # "raised"
       /\ ~Truthy(hf_token) => ~invoked
       /\ (pc = "returned" /\ (~Truthy(hf_token) \/ backend.outcome # "ok"))
          => segments = entries_to_segments(
                          merge_intervals(
                            entries_from_intervals(data.active, data.total),
                            sr),
                          sr, data.total, <<0, 1>>)

FormatReturned == op = "entries_to_segments" /\ pc = "returned"

\* The interval list the formatter was given: the argument of a direct call,
\* the merger's result inside split_audio_into_segments.
Collapsed == IF op = "entries_to_segments" THEN entries ELSE merged

\* C11: entries_to_segments clamps padding: each speech segment starts at
\* sample max(0, s - pad) and ends at sample min(total, e + pad), so none
\* starts before 0 s or ends after total / sr; silence segments keep their
\* exact boundaries.
C11_PaddingClamped ==
    FormatReturned \/ SplitReturned
    => LET pad == IntOfProduct(pad_sec, sr)
           total == data.total
       IN  /\ Len(segments) = Len(Collapsed)
           /\ \A k \in 1..Len(segments) :
                LET s == Collapsed[k][1]
                    e == Collapsed[k][2]
                    seg == segments[k]
                IN  IF Collapsed[k][3]
                      THEN /\ seg.label = "speech"
                           /\ FracEq(seg.start_time_sec,
                                     <<IF s - pad < 0 THEN 0 ELSE s - pad, sr>>)
                           /\ FracEq(seg.end_time_sec,
                                     <<IF e + pad > total THEN total
                                                          ELSE e + pad, sr>>)
                           /\ FracLeq(<<0, 1>>, seg.start_time_sec)
                           /\ FracLeq(seg.end_time_sec, <<total, sr>>)
                      ELSE /\ seg.label = "silence"
                           /\ FracEq(seg.start_time_sec, <<s, sr>>)
                           /\ FracEq(seg.end_time_sec, <<e, sr>>)

\* A direct call returned with a padding that overshoots both ends of the
\* recording, next to a silence.
C11_Witness ==
    /\ FormatReturned
    /\ IntOfProduct(pad_sec, sr) >= 1
    /\ \E k \in 1..Len(entries) :
         entries[k][3] /\ entries[k][1] - IntOfProduct(pad_sec, sr) < 0
    /\ \E k \in 1..Len(entries) :
         entries[k][3] /\ entries[k][2] + IntOfProduct(pad_sec, sr) > data.total
    /\ \E k \in 1..Len(entries) : ~entries[k][3]

\* C12: for every total, entries_from_intervals called with an empty list of
\* raw active ranges returns exactly the single silence interval
\* [(0, total, False)].
C12_EmptyRangesOneSilence ==
    BuilderReturned /\ data.active = <<>>
    => entries = << <<0, data.total, FALSE>> >>

\* The test's call, with no ranges and total = 12345, returned.
C12_Witness ==
    /\ BuilderReturned /\ data = TestEmptyInput
    /\ entries = << <<0, 12345, FALSE>> >>

\* The reducer is about to take a speech interval that starts where an
\* accumulated silence ends.
RuleBCase ==
    /\ op = "merge_intervals" /\ pc = "reduce" /\ i <= Len(Source)
    /\ acc # <<>>
    /\ ~Last(acc)[3] /\ Source[i][3]
    /\ Source[i][1] = Last(acc)[2]

\* C13: Rule B applies only to short silences: a silence immediately before a
\* speech interval is absorbed into it (one speech interval from the
\* silence's start to the speech's end) iff the silence's length is
\* <= min_gap; a longer silence stays in the output and the speech interval
\* is appended unchanged.
C13_RuleBOnlyShortSilences ==
    [][ RuleBCase =>
          acc' = IF Last(acc)[2] - Last(acc)[1] <= min_gap
                   THEN Append(Front(acc),
                               <<Last(acc)[1], Source[i][2], TRUE>>)
                   ELSE Append(acc, Source[i]) ]_vars

====
